---------------------------- MODULE Spec2Model ----------------------------
(***************************************************************************)
(* A model of speedml's Feature component (src/speedml/feature.py).        *)
(*                                                                         *)
(* Base.train and Base.test are pandas DataFrames shared by every method   *)
(* of Feature.  A DataFrame is modelled as a record [n, c]: n is the       *)
(* number of rows (shape[0]) and c maps each column name to the sequence   *)
(* of the n cells of that column.  Every method of Feature is one action:  *)
(* the statements of the method are applied in order, and the first        *)
(* statement that raises ends the call, keeping what the statements before *)
(* it assigned (Python has no rollback).                                   *)
(*                                                                         *)
(* Cells.  Floating point numbers are modelled as exact rationals plus     *)
(* inf, -inf and NaN (pandas' missing value):                              *)
(*    [k |-> "num", n |-> numerator, d |-> denominator]   gcd 1, d > 0     *)
(*    [k |-> "inf", sgn |-> 1 or -1]                                       *)
(*    [k |-> "nan"]                                                        *)
(*    [k |-> "str", s |-> a string]                                        *)
(*    [k |-> "list", l |-> a sequence]                                     *)
(***************************************************************************)
EXTENDS Integers, Sequences, FiniteSets, TLC

VARIABLES
    train,   \* Base.train
    test,    \* Base.test
    call,    \* the method called last and its arguments
    ret,     \* how that call ended: what it returned or raised, what it printed
    log,     \* the steps that call completed, in order: "train", "test", "data_n"
    calls    \* the number of calls made so far

vars == <<train, test, call, ret, log, calls>>

(***************************************************************************)
(* Bounds of the model.                                                    *)
(***************************************************************************)
MaxCalls == 2

\* The numbers drawn as inputs are -MaxVal .. MaxVal.
MaxVal == 1

\* Base.target: the name of the target column.
target == "y"

-----------------------------------------------------------------------------
(***************************************************************************)
(* Numbers.                                                                *)
(***************************************************************************)
Abs(x) == IF x < 0 THEN -x ELSE x

Sign(x) == IF x < 0 THEN -1 ELSE IF x = 0 THEN 0 ELSE 1

RECURSIVE GCD(_, _)
GCD(a, b) == IF b = 0 THEN a ELSE GCD(b, a % b)

\* The rational n/d (d # 0) in lowest terms with a positive denominator.
Num(n, d) ==
    LET g == GCD(Abs(n), Abs(d))
        s == IF d < 0 THEN -1 ELSE 1
    IN  [k |-> "num", n |-> (s * n) \div g, d |-> Abs(d) \div g]

Int2Cell(i) == Num(i, 1)

NaN == [k |-> "nan"]
Inf(s) == [k |-> "inf", sgn |-> s]
Str(s) == [k |-> "str", s |-> s]
List(l) == [k |-> "list", l |-> l]

IsNum(x) == x.k = "num"
IsNumeric(x) == x.k \in {"num", "inf", "nan"}

\* x < y for two cells that are numbers or infinities (never true of NaN).
Less(x, y) ==
    CASE x.k = "nan" \/ y.k = "nan" -> FALSE
      [] x.k = "inf" /\ y.k = "inf" -> x.sgn < y.sgn
      [] x.k = "inf" -> x.sgn < 0
      [] y.k = "inf" -> y.sgn > 0
      [] OTHER -> x.n * y.d < y.n * x.d

Neg(x) ==
    CASE x.k = "nan" -> NaN
      [] x.k = "inf" -> Inf(-x.sgn)
      [] OTHER -> Num(-x.n, x.d)

\* IEEE 754 addition, without rounding or overflow.
Plus(x, y) ==
    CASE x.k = "nan" \/ y.k = "nan" -> NaN
      [] x.k = "inf" /\ y.k = "inf" -> IF x.sgn = y.sgn THEN x ELSE NaN
      [] x.k = "inf" -> x
      [] y.k = "inf" -> y
      [] OTHER -> Num(x.n * y.d + y.n * x.d, x.d * y.d)

Minus(x, y) == Plus(x, Neg(y))

Times(x, y) ==
    CASE x.k = "nan" \/ y.k = "nan" -> NaN
      [] x.k = "inf" /\ y.k = "inf" -> Inf(x.sgn * y.sgn)
      [] x.k = "inf" -> IF y.n = 0 THEN NaN ELSE Inf(x.sgn * Sign(y.n))
      [] y.k = "inf" -> IF x.n = 0 THEN NaN ELSE Inf(y.sgn * Sign(x.n))
      [] OTHER -> Num(x.n * y.n, x.d * y.d)

\* True division of two float cells as numpy computes it: x/0 is inf, -inf or
\* NaN (for 0/0) and never raises.
TrueDiv(x, y) ==
    CASE x.k = "nan" \/ y.k = "nan" -> NaN
      [] x.k = "inf" /\ y.k = "inf" -> NaN
      [] x.k = "inf" -> IF y.n < 0 THEN Inf(-x.sgn) ELSE x
      [] y.k = "inf" -> Int2Cell(0)
      [] y.n = 0 -> IF x.n = 0 THEN NaN ELSE Inf(Sign(x.n))
      [] OTHER -> Num(x.n * y.d, x.d * y.n)

-----------------------------------------------------------------------------
(***************************************************************************)
(* Text.                                                                   *)
(***************************************************************************)
Digit(i) == SubSeq("0123456789", i + 1, i + 1)

RECURSIVE NatStr(_)
NatStr(n) == IF n < 10 THEN Digit(n) ELSE NatStr(n \div 10) \o Digit(n % 10)

\* str(i), and '{}'.format(i), of a Python int.
IntStr(i) == IF i < 0 THEN "-" \o NatStr(-i) ELSE NatStr(i)

\* '{:.2f}'.format(x) of the nonnegative rational n/d: two decimals, the
\* nearest one, a tie going to the even digit.
Fixed2(n, d) ==
    LET q == (100 * n) \div d
        r == (100 * n) % d
        h == IF 2 * r > d \/ (2 * r = d /\ q % 2 = 1) THEN q + 1 ELSE q
    IN  NatStr(h \div 100) \o "." \o Digit((h \div 10) % 10) \o Digit(h % 10)

-----------------------------------------------------------------------------
(***************************************************************************)
(* DataFrames.                                                             *)
(***************************************************************************)
Cols(t) == DOMAIN t.c

Has(t, a) == a \in Cols(t)

Rows(t) == 1 .. t.n

\* df[a] = col: the column is added, or replaced when it exists.
SetCol(t, a, col) ==
    [t EXCEPT !.c = [x \in Cols(t) \cup {a} |-> IF x = a THEN col ELSE t.c[x]]]

\* df.drop(features, axis=1), every one of them being a column of df.
DropCols(t, features) ==
    [t EXCEPT !.c = [x \in Cols(t) \ features |-> t.c[x]]]

\* df[a] = scalar: every row of the column gets the scalar.
Broadcast(t, x) == [i \in Rows(t) |-> x]

\* The kinds of the cells of column a, when df has it.
Kinds(t, a) == IF Has(t, a) THEN {t.c[a][i].k : i \in Rows(t)} ELSE {}

\* Column a, where a table has it, holds only numbers, infinities and NaN.
NumericCol(t, a) == Kinds(t, a) \subseteq {"num", "inf", "nan"}

\* Column a, where a table has it, holds only text.
TextCol(t, a) == Kinds(t, a) \subseteq {"str"}

-----------------------------------------------------------------------------
(***************************************************************************)
(* How a statement and a call end.                                         *)
(***************************************************************************)
\* A statement that assigned table t.
Ok(t) == [err |-> "", t |-> t]

\* A statement that raised.
Raise(e) == [err |-> e, t |-> [n |-> 0, c |-> <<>>]]

\* A call that returned value, having printed out.
Returned(value, out) == [raised |-> "", value |-> value, out |-> out]

\* A call that raised e.
Raised(e) == [raised |-> e, value |-> "", out |-> <<>>]

\* Base.data_n(), the schema-refresh hook of Base: the model records that it
\* was called.
data_n(lg) == Append(lg, "data_n")

\* A faulty variant of TrainThenTest that never assigns Base.test: the schema
\* property C1 must tell it from TrainThenTest.
TrainThenTestForgetsTest(s1, s2, refresh) ==
    IF s1.err # ""
    THEN /\ train' = train /\ test' = test
         /\ log' = <<>> /\ ret' = Raised(s1.err)
    ELSE IF s2.err # ""
    THEN /\ train' = s1.t /\ test' = test
         /\ log' = <<"train">> /\ ret' = Raised(s2.err)
    ELSE /\ train' = s1.t /\ test' = test
         /\ log' = (IF refresh THEN data_n(<<"train">>) ELSE <<"train">>)
         /\ ret' = Returned("None", <<>>)

\* A faulty variant of TrainThenTest that undoes the train statement when
\* the test statement raises: the no-rollback property C9 must tell it from
\* TrainThenTest.
TrainThenTestRollsBack(s1, s2, refresh) ==
    IF s1.err # "" \/ s2.err # ""
    THEN /\ train' = train /\ test' = test
         /\ log' = (IF s1.err # "" THEN <<>> ELSE <<"train">>)
         /\ ret' = Raised(IF s1.err # "" THEN s1.err ELSE s2.err)
    ELSE /\ train' = s1.t /\ test' = s2.t
         /\ log' = (IF refresh THEN data_n(<<"train", "test">>)
                               ELSE <<"train", "test">>)
         /\ ret' = Returned("None", <<>>)

\* The body shared by the methods of the form
\*     Base.train[..] = <from Base.train>; Base.test[..] = <from Base.test>
\* followed, for most of them, by Base.data_n(): s1 and s2 are the two
\* statements' outcomes.
TrainThenTest(s1, s2, refresh) ==
    IF s1.err # ""
    THEN /\ train' = train /\ test' = test
         /\ log' = <<>> /\ ret' = Raised(s1.err)
    ELSE IF s2.err # ""
    THEN /\ train' = s1.t /\ test' = test
         /\ log' = <<"train">> /\ ret' = Raised(s2.err)
    ELSE /\ train' = s1.t /\ test' = s2.t
         /\ log' = (IF refresh THEN data_n(<<"train", "test">>)
                               ELSE <<"train", "test">>)
         /\ ret' = Returned("None", <<>>)

\* One more call is made.
Called(c) == calls < MaxCalls /\ calls' = calls + 1 /\ call' = c

-----------------------------------------------------------------------------
(***************************************************************************)
(* Feature.drop                                                            *)
(***************************************************************************)
\* df.drop(features, axis=1): raises when a name is no column of df.
DfDrop(t, features) ==
    IF features \subseteq Cols(t) THEN Ok(DropCols(t, features))
    ELSE Raise("KeyError")

\* A faulty variant of DropMessage with the two numbers exchanged.
DropMessageSwapped(start, end) ==
    "Dropped " \o IntStr(end) \o " features with " \o IntStr(start - end)
        \o " features available."

DropMessage(start, end) ==
    "Dropped " \o IntStr(start - end) \o " features with " \o IntStr(end)
        \o " features available."

drop(features) ==
    /\ Called([op |-> "drop", features |-> features])
    /\ LET start == Cardinality(Cols(train))
           s1 == DfDrop(train, features)
           s2 == DfDrop(test, features)
       IN  IF s1.err # ""
           THEN /\ train' = train /\ test' = test
                /\ log' = <<>> /\ ret' = Raised(s1.err)
           ELSE IF s2.err # ""
           THEN /\ train' = s1.t /\ test' = test
                /\ log' = <<"train">> /\ ret' = Raised(s2.err)
           ELSE LET end == Cardinality(Cols(s1.t))
                IN  /\ train' = s1.t /\ test' = s2.t
                    /\ log' = data_n(<<"train", "test">>)
                    /\ ret' = Returned(DropMessage(start, end), <<>>)

-----------------------------------------------------------------------------
(***************************************************************************)
(* Feature.sum, diff, product                                              *)
(***************************************************************************)
\* df[new] = df[a] (op) df[b], row by row.
BinOp(t, new, a, b, Op(_, _)) ==
    IF ~Has(t, a) \/ ~Has(t, b) THEN Raise("KeyError")
    ELSE Ok(SetCol(t, new, [i \in Rows(t) |-> Op(t.c[a][i], t.c[b][i])]))

\* The numeric methods are modelled on columns of numbers.
NumericArgs(cs) ==
    \A a \in cs : NumericCol(train, a) /\ NumericCol(test, a)

sum(new, a, b) ==
    /\ NumericArgs({a, b})
    /\ Called([op |-> "sum", new |-> new, a |-> a, b |-> b])
    /\ TrainThenTest(BinOp(train, new, a, b, Plus),
                     BinOp(test, new, a, b, Plus), TRUE)

diff(new, a, b) ==
    /\ NumericArgs({a, b})
    /\ Called([op |-> "diff", new |-> new, a |-> a, b |-> b])
    /\ TrainThenTest(BinOp(train, new, a, b, Minus),
                     BinOp(test, new, a, b, Minus), TRUE)

product(new, a, b) ==
    /\ NumericArgs({a, b})
    /\ Called([op |-> "product", new |-> new, a |-> a, b |-> b])
    /\ TrainThenTest(BinOp(train, new, a, b, Times),
                     BinOp(test, new, a, b, Times), TRUE)

-----------------------------------------------------------------------------
(***************************************************************************)
(* Feature.divide                                                          *)
(***************************************************************************)
\* df[new] = df[new].replace([np.inf, -np.inf], 0)
ReplaceInf(t, new) ==
    Ok(SetCol(t, new, [i \in Rows(t) |->
           IF t.c[new][i].k = "inf" THEN Int2Cell(0) ELSE t.c[new][i]]))

divide(new, a, b) ==
    /\ NumericArgs({a, b})
    /\ Called([op |-> "divide", new |-> new, a |-> a, b |-> b])
    /\ LET s1 == BinOp(train, new, a, b, TrueDiv)
           s2 == BinOp(test, new, a, b, TrueDiv)
       IN  IF s1.err # "" \/ s2.err # ""
           THEN TrainThenTest(s1, s2, TRUE)
           ELSE \* Histograms require finite values
                /\ train' = ReplaceInf(s1.t, new).t
                /\ test' = ReplaceInf(s2.t, new).t
                /\ log' = data_n(<<"train", "test", "train", "test">>)
                /\ ret' = Returned("None", <<>>)

-----------------------------------------------------------------------------
(***************************************************************************)
(* Feature.add, round                                                      *)
(***************************************************************************)
\* df[new] = f(df[a]), cell by cell.
UnOp(t, new, a, F(_)) ==
    IF ~Has(t, a) THEN Raise("KeyError")
    ELSE Ok(SetCol(t, new, [i \in Rows(t) |-> F(t.c[a][i])]))

add(a, num) ==
    /\ NumericArgs({a})
    /\ Called([op |-> "add", a |-> a, num |-> num])
    /\ LET F(x) == Plus(x, num)
       IN  TrainThenTest(UnOp(train, a, a, F), UnOp(test, a, a, F), TRUE)

RECURSIVE Pow10(_)
Pow10(p) == IF p = 0 THEN 1 ELSE 10 * Pow10(p - 1)

\* Series.round(precision) on one cell, precision >= 0: the nearest multiple
\* of 10^-precision, a tie going to the even one; NaN and inf stay.
Round(x, precision) ==
    IF x.k # "num" THEN x
    ELSE LET m == x.n * Pow10(precision)
             q == m \div x.d
             r == m % x.d
             h == IF 2 * r > x.d \/ (2 * r = x.d /\ q % 2 = 1) THEN q + 1 ELSE q
         IN  Num(h, Pow10(precision))

round(new, a, precision) ==
    /\ NumericArgs({a})
    /\ Called([op |-> "round", new |-> new, a |-> a, precision |-> precision])
    /\ LET F(x) == Round(x, precision)
       IN  TrainThenTest(UnOp(train, new, a, F), UnOp(test, new, a, F), TRUE)

-----------------------------------------------------------------------------
(***************************************************************************)
(* Feature.fillna, replace, ordinal_to_numeric                             *)
(***************************************************************************)
fillna(a, new) ==
    /\ Called([op |-> "fillna", a |-> a, new |-> new])
    /\ LET F(x) == IF x.k = "nan" THEN new ELSE x
       IN  TrainThenTest(UnOp(train, a, a, F), UnOp(test, a, a, F), FALSE)

\* match is the set of the values to replace (one value, or a list of them).
replace(a, match, new) ==
    /\ Called([op |-> "replace", a |-> a, match |-> match, new |-> new])
    /\ LET F(x) == IF x \in match THEN new ELSE x
       IN  TrainThenTest(UnOp(train, a, a, F), UnOp(test, a, a, F), FALSE)

\* df[a] = df[a].apply(lambda x: map_to_numbers[x]): a value that is no key
\* of the dictionary raises KeyError, and nothing is assigned.
ApplyMap(t, a, map_to_numbers) ==
    IF ~Has(t, a) THEN Raise("KeyError")
    ELSE IF \E i \in Rows(t) : t.c[a][i].k = "list" THEN Raise("TypeError")
    ELSE IF \E i \in Rows(t) : t.c[a][i] \notin DOMAIN map_to_numbers
         THEN Raise("KeyError")
    ELSE Ok(SetCol(t, a, [i \in Rows(t) |-> map_to_numbers[t.c[a][i]]]))

ordinal_to_numeric(a, map_to_numbers) ==
    /\ Called([op |-> "ordinal_to_numeric", a |-> a, map |-> map_to_numbers])
    /\ TrainThenTest(ApplyMap(train, a, map_to_numbers),
                     ApplyMap(test, a, map_to_numbers), TRUE)

-----------------------------------------------------------------------------
(***************************************************************************)
(* Feature.density                                                         *)
(***************************************************************************)
\* Series.value_counts().to_dict(): each value of the column that is not
\* missing (NaN is dropped), with the number of rows holding it.
value_counts(col) ==
    LET keys == {col[i] : i \in DOMAIN col} \ {NaN}
    IN  [x \in keys |-> Cardinality({i \in DOMAIN col : col[i] = x})]

\* vals.min(): the smallest count, NaN when no value is counted.
MinCount(dvals) ==
    IF DOMAIN dvals = {} THEN NaN
    ELSE Int2Cell(CHOOSE m \in {dvals[x] : x \in DOMAIN dvals} :
                      \A x \in DOMAIN dvals : m <= dvals[x])

\* A faulty variant of DensityOf whose default is 0 instead of vals.min().
DensityOfDefaultZero(dvals, x) ==
    IF x \in DOMAIN dvals THEN Int2Cell(dvals[x]) ELSE Int2Cell(0)

\* lambda x: dvals.get(x, vals.min())
DensityOf(dvals, x) ==
    IF x \in DOMAIN dvals THEN Int2Cell(dvals[x]) ELSE MinCount(dvals)

\* df[a + '_density'] = df[a].apply(lambda x: dvals.get(x, vals.min())): a
\* list is no dictionary key.
ApplyDensity(t, a, dvals) ==
    IF ~Has(t, a) THEN Raise("KeyError")
    ELSE IF "list" \in Kinds(t, a) THEN Raise("TypeError")
    ELSE Ok(SetCol(t, a \o "_density",
               [i \in Rows(t) |-> DensityOf(dvals, t.c[a][i])]))

density(a) ==
    /\ Called([op |-> "density", a |-> a])
    /\ IF ~Has(train, a)
       THEN TrainThenTest(Raise("KeyError"), Raise("KeyError"), TRUE)
       ELSE IF "list" \in Kinds(train, a)
       THEN TrainThenTest(Raise("TypeError"), Raise("TypeError"), TRUE)
       ELSE LET dvals == value_counts(train.c[a])
            IN  TrainThenTest(ApplyDensity(train, a, dvals),
                              ApplyDensity(test, a, dvals), TRUE)

-----------------------------------------------------------------------------
(***************************************************************************)
(* Feature.list_len, word_count                                            *)
(***************************************************************************)
\* df[new] = df[a].apply(len): len of a str or of a list; a float has none.
ApplyLen(t, new, a) ==
    IF ~Has(t, a) THEN Raise("KeyError")
    ELSE IF \E i \in Rows(t) : t.c[a][i].k \notin {"str", "list"}
         THEN Raise("TypeError")
    ELSE Ok(SetCol(t, new, [i \in Rows(t) |->
               IF t.c[a][i].k = "str" THEN Int2Cell(Len(t.c[a][i].s))
               ELSE Int2Cell(Len(t.c[a][i].l))]))

list_len(new, a) ==
    /\ Called([op |-> "list_len", new |-> new, a |-> a])
    /\ TrainThenTest(ApplyLen(train, new, a), ApplyLen(test, new, a), TRUE)

\* len(x.split(" ")): str.split with the separator " " cuts at every single
\* space, so the pieces are one more than the spaces ("" gives [""]).
SplitSpaceLen(s) == 1 + Cardinality({i \in 1 .. Len(s) : SubSeq(s, i, i) = " "})

\* df[new] = df[a].apply(lambda x: len(x.split(" "))): only a str has split.
ApplySplitLen(t, new, a) ==
    IF ~Has(t, a) THEN Raise("KeyError")
    ELSE IF \E i \in Rows(t) : t.c[a][i].k # "str" THEN Raise("AttributeError")
    ELSE Ok(SetCol(t, new, [i \in Rows(t) |->
               Int2Cell(SplitSpaceLen(t.c[a][i].s))]))

word_count(new, a) ==
    /\ Called([op |-> "word_count", new |-> new, a |-> a])
    /\ TrainThenTest(ApplySplitLen(train, new, a),
                     ApplySplitLen(test, new, a), TRUE)

-----------------------------------------------------------------------------
(***************************************************************************)
(* Feature.concat                                                          *)
(***************************************************************************)
RECURSIVE Strip(_, _)
Strip(d, f) == IF d % f = 0 THEN Strip(d \div f, f) ELSE d

\* The decimal expansion of 1/d ends.
Terminates(d) == Strip(Strip(d, 2), 5) = 1

\* The least number of decimals, at least one, that write n/d exactly.
RECURSIVE Decimals(_, _, _)
Decimals(n, d, p) ==
    IF (n * Pow10(p)) % d = 0 THEN p ELSE Decimals(n, d, p + 1)

\* v written with exactly p digits.
RECURSIVE Padded(_, _)
Padded(v, p) == IF p = 0 THEN "" ELSE Padded(v \div 10, p - 1) \o Digit(v % 10)

\* str(x) of a Python float holding n/d, whose decimal expansion ends: the
\* shortest decimal that reads back as x, with at least one decimal.
FloatStr(n, d) ==
    LET p == Decimals(Abs(n), d, 1)
        m == (Abs(n) * Pow10(p)) \div d
    IN  (IF n < 0 THEN "-" ELSE "") \o NatStr(m \div Pow10(p)) \o "."
            \o Padded(m % Pow10(p), p)

\* str(l) of a list of ints.
RECURSIVE Joined(_)
Joined(l) ==
    IF Len(l) = 0 THEN ""
    ELSE IF Len(l) = 1 THEN IntStr(l[1])
    ELSE IntStr(l[1]) \o ", " \o Joined(Tail(l))

\* str(x) of one cell; float says whether the numbers of its column are floats.
CellStr(x, float) ==
    CASE x.k = "str" -> x.s
      [] x.k = "nan" -> "nan"
      [] x.k = "inf" -> IF x.sgn < 0 THEN "-inf" ELSE "inf"
      [] x.k = "list" -> "[" \o Joined(x.l) \o "]"
      [] OTHER -> IF float \/ x.d # 1 THEN FloatStr(x.n, x.d) ELSE IntStr(x.n)

\* The model does not track whether a column of whole numbers is int64 or
\* float64 (1 or 1.0): both are possible unless the column holds a NaN, an
\* infinity or a fraction, which make it float64.
FloatChoices(t, a) ==
    IF ~Has(t, a) \/ "num" \notin Kinds(t, a) THEN {FALSE}
    ELSE IF /\ NumericCol(t, a)
            /\ \E i \in Rows(t) : t.c[a][i].k # "num" \/ t.c[a][i].d # 1
         THEN {TRUE}
    ELSE {FALSE, TRUE}

\* str() is modelled for the numbers whose decimal expansion ends.
Printable(t, a) ==
    Has(t, a) => \A i \in Rows(t) : t.c[a][i].k = "num" => Terminates(t.c[a][i].d)

\* df[new] = df[a].astype(str) + sep + df[b].astype(str)
ConcatCols(t, new, a, sep, b, fa, fb) ==
    IF ~Has(t, a) \/ ~Has(t, b) THEN Raise("KeyError")
    ELSE Ok(SetCol(t, new, [i \in Rows(t) |->
               Str(CellStr(t.c[a][i], fa) \o sep \o CellStr(t.c[b][i], fb))]))

concat(new, a, sep, b) ==
    /\ \A x \in {a, b} : Printable(train, x) /\ Printable(test, x)
    /\ Called([op |-> "concat", new |-> new, a |-> a, sep |-> sep, b |-> b])
    /\ \E fa \in FloatChoices(train, a), fb \in FloatChoices(train, b),
          ga \in FloatChoices(test, a), gb \in FloatChoices(test, b) :
          TrainThenTest(ConcatCols(train, new, a, sep, b, fa, fb),
                        ConcatCols(test, new, a, sep, b, ga, gb), FALSE)

-----------------------------------------------------------------------------
(***************************************************************************)
(* Feature.regex_extract                                                   *)
(***************************************************************************)
\* An optional argument is <<>> (None) or <<value>>; Python takes None, 0 and
\* '' as false.
TruthyStr(o) == o # <<>> /\ o[1] # ""

TruthyNum(o) == o # <<>> /\ o[1] # 0

\* The regular expressions of the model are the character classes in a group,
\* '([abc])': regex is the set of the characters of the class.  re.search
\* finds the first character of text that is in the class, group(1) is it.
_regex_text(regex, text) ==
    LET hits == {i \in 1 .. Len(text) : SubSeq(text, i, i) \in regex}
    IN  IF hits # {}
        THEN LET first == CHOOSE i \in hits : \A j \in hits : i <= j
             IN  SubSeq(text, first, first)
        ELSE ""

\* df[new if new else a] = df[a].apply(lambda x: self._regex_text(regex, x)):
\* re.search raises TypeError on a value that is no str.
ApplyRegex(t, a, regex, new) ==
    IF ~Has(t, a) THEN Raise("KeyError")
    ELSE IF \E i \in Rows(t) : t.c[a][i].k # "str" THEN Raise("TypeError")
    ELSE Ok(SetCol(t, IF TruthyStr(new) THEN new[1] ELSE a,
               [i \in Rows(t) |-> Str(_regex_text(regex, t.c[a][i].s))]))

regex_extract(a, regex, new) ==
    /\ Called([op |-> "regex_extract", a |-> a, regex |-> regex, new |-> new])
    /\ TrainThenTest(ApplyRegex(train, a, regex, new),
                     ApplyRegex(test, a, regex, new), FALSE)

-----------------------------------------------------------------------------
(***************************************************************************)
(* Feature.outliers_fix                                                    *)
(***************************************************************************)
\* The sequence without its i-th element.
Without(seq, i) == SubSeq(seq, 1, i - 1) \o SubSeq(seq, i + 1, Len(seq))

\* The cells of a sequence of numbers in ascending order.
RECURSIVE Sorted(_)
Sorted(seq) ==
    IF Len(seq) = 0 THEN <<>>
    ELSE LET i == CHOOSE i \in DOMAIN seq : \A j \in DOMAIN seq : ~Less(seq[j], seq[i])
         IN  <<seq[i]>> \o Sorted(Without(seq, i))

\* np.percentile(values, q), 0 <= q <= 100, of at least one value, by linear
\* interpolation between the two nearest ranks; NaN when a value is NaN.
percentile(values, q) ==
    IF \E i \in DOMAIN values : values[i].k = "nan" THEN NaN
    ELSE LET s == Sorted(values)
             pos == q * (Len(values) - 1)
             lo == pos \div 100 + 1
             frac == Num(pos % 100, 100)
         IN  IF frac.n = 0 THEN s[lo]
             ELSE Plus(s[lo], Times(frac, Minus(s[lo + 1], s[lo])))

\* '{} or {:.2f}% outliers fixed.'.format(change, change/Base.train.shape[0]*100)
OutliersMessage(change, n) ==
    IntStr(change) \o " or " \o Fixed2(change * 100, n) \o "% outliers fixed."

\* One of the two blocks of outliers_fix, on table t: above is TRUE for the
\* upper block (values > threshold), FALSE for the lower (values < threshold).
\* Gives the table and the line printed.
FixBlock(t, a, q, above) ==
    LET value == percentile(t.c[a], q)
        out(x) == IF above THEN Less(value, x) ELSE Less(x, value)
        change == Cardinality({i \in Rows(t) : out(t.c[a][i])})
    IN  [t |-> SetCol(t, a, [i \in Rows(t) |->
                   IF out(t.c[a][i]) THEN value ELSE t.c[a][i]]),
         out |-> OutliersMessage(change, t.n)]

\* np.percentile is modelled on finite numbers and NaN.
FiniteCol(t, a) == Kinds(t, a) \subseteq {"num", "nan"}

outliers_fix(a, lower, upper) ==
    /\ FiniteCol(train, a)
    /\ train.n > 0
    /\ Called([op |-> "outliers_fix", a |-> a, lower |-> lower, upper |-> upper])
    /\ test' = test
    /\ IF (TruthyNum(upper) \/ TruthyNum(lower)) /\ ~Has(train, a)
       THEN /\ train' = train /\ log' = <<>> /\ ret' = Raised("KeyError")
       ELSE LET u == IF TruthyNum(upper)
                     THEN FixBlock(train, a, upper[1], TRUE)
                     ELSE [t |-> train, out |-> ""]
                l == IF TruthyNum(lower)
                     THEN FixBlock(u.t, a, lower[1], FALSE)
                     ELSE [t |-> u.t, out |-> ""]
                step(o) == IF TruthyNum(o) THEN <<"train", "data_n">> ELSE <<>>
                line(o, b) == IF TruthyNum(o) THEN <<b.out>> ELSE <<>>
            IN  /\ train' = l.t
                /\ log' = step(upper) \o step(lower)
                /\ ret' = Returned("None", line(upper, u) \o line(lower, l))

-----------------------------------------------------------------------------
(***************************************************************************)
(* Feature.impute, labels                                                  *)
(***************************************************************************)
\* Base.test[Base.target] = -1
WithPlaceholder(t) == SetCol(t, target, Broadcast(t, Int2Cell(-1)))

\* A faulty variant of DropTarget that leaves the placeholder in test.
DropTargetForgotten(t) == t

\* Base.test = Base.test.drop([Base.target], axis=1)
DropTarget(t) == DropCols(t, {target})

\* top.append(bottom): the rows of top, then those of bottom, over the columns
\* of both; a column a table lacks is NaN in its rows.
DfAppend(top, bottom) ==
    LET cell(t, x, i) == IF Has(t, x) THEN t.c[x][i] ELSE NaN
    IN  [n |-> top.n + bottom.n,
         c |-> [x \in Cols(top) \cup Cols(bottom) |->
                   [i \in 1 .. top.n + bottom.n |->
                       IF i <= top.n THEN cell(top, x, i)
                       ELSE cell(bottom, x, i - top.n)]]]

\* combine[from:to], rows counted from 0 and to excluded.
DfSlice(t, from, to) ==
    [n |-> to - from,
     c |-> [x \in Cols(t) |-> SubSeq(t.c[x], from + 1, to)]]

\* df.isnull().sum().sum()
NullCount(t) ==
    Cardinality({<<x, i>> \in Cols(t) \X Rows(t) : t.c[x][i].k = "nan"})

\* The values DataFrameImputer may fill column col with: the median of a
\* numeric column (NaN when it has no value), the most frequent value of any
\* other column (any one of them when several are).
FillValues(col) ==
    LET present == SelectSeq(col, LAMBDA x : x.k # "nan")
        counts == value_counts(col)
    IN  IF \A i \in DOMAIN col : IsNumeric(col[i])
        THEN IF Len(present) = 0 THEN {NaN}
             ELSE LET s == Sorted(present)
                      m == (Len(s) + 1) \div 2
                  IN  IF Len(s) % 2 = 1 THEN {s[m]}
                      ELSE {Times(Num(1, 2), Plus(s[m], s[m + 1]))}
        ELSE {x \in DOMAIN counts : \A y \in DOMAIN counts : counts[y] <= counts[x]}

\* The ways to choose a fill value for each of the columns cs of t.
RECURSIVE Fills(_, _)
Fills(t, cs) ==
    IF cs = {} THEN {<<>>}
    ELSE LET x == CHOOSE x \in cs : TRUE
         IN  {f @@ (x :> v) : f \in Fills(t, cs \ {x}), v \in FillValues(t.c[x])}

\* DataFrameImputer().fit_transform(df) with fill[x] the value for column x.
Imputed(t, fill) ==
    [t EXCEPT !.c = [x \in Cols(t) |-> [i \in Rows(t) |->
        IF t.c[x][i].k = "nan" THEN fill[x] ELSE t.c[x][i]]]]

ImputeMessage(start, end) ==
    "Imputed " \o IntStr(start) \o " empty values to " \o IntStr(end) \o "."

impute ==
    /\ Called([op |-> "impute"])
    /\ LET start == NullCount(train)
           combine == DfAppend(train, WithPlaceholder(test))
       IN  \E fill \in Fills(combine, Cols(combine)) :
              LET filled == Imputed(combine, fill)
                  tr == DfSlice(filled, 0, train.n)
                  te == DfSlice(filled, tr.n, filled.n)
              IN  /\ train' = tr
                  /\ test' = DropTarget(te)
                  /\ log' = data_n(<<"test", "train", "test", "test">>)
                  /\ ret' = Returned(ImputeMessage(start, NullCount(tr)), <<>>)

\* The characters of the model's text in the order of their code points.
CodePoints == "\t\n ,-.0123456789ABCDEFGHIJKLMNOPQRSTUVWXYZ[]_abcdefghijklmnopqrstuvwxyz"

ord(ch) == CHOOSE i \in 1 .. Len(CodePoints) : SubSeq(CodePoints, i, i) = ch

\* s < t for two Python strings.
RECURSIVE StrLess(_, _)
StrLess(s, t) ==
    IF Len(t) = 0 THEN FALSE
    ELSE IF Len(s) = 0 THEN TRUE
    ELSE IF SubSeq(s, 1, 1) # SubSeq(t, 1, 1)
         THEN ord(SubSeq(s, 1, 1)) < ord(SubSeq(t, 1, 1))
    ELSE StrLess(SubSeq(s, 2, Len(s)), SubSeq(t, 2, Len(t)))

\* x < y among the values of one column: all text, or all numbers.
ValueLess(x, y) == IF x.k = "str" THEN StrLess(x.s, y.s) ELSE Less(x, y)

\* LabelEncoder().fit_transform(col): fit keeps the distinct values sorted
\* (classes_ = np.unique(col)), transform gives each value its index there.
fit_transform(col) ==
    LET classes == {col[i] : i \in DOMAIN col}
    IN  [i \in DOMAIN col |->
            Int2Cell(Cardinality({x \in classes : ValueLess(x, col[i])}))]

\* LabelEncoder is modelled on columns np.unique can sort in every version:
\* all text, or all numbers, without NaN.
Sortable(t, a) ==
    Has(t, a) => Kinds(t, a) \subseteq {"str"} \/ Kinds(t, a) \subseteq {"num", "inf"}

\* for feature in features: df[feature] = le.fit_transform(df[feature])
EncodeCols(t, features) ==
    [t EXCEPT !.c = [x \in Cols(t) |->
        IF x \in features THEN fit_transform(t.c[x]) ELSE t.c[x]]]

\* A faulty variant of labels that fits the encoder on train and on test
\* apart instead of on the two appended.
labels_each_table(features) ==
    /\ Called([op |-> "labels", features |-> features])
    /\ IF ~(features \subseteq Cols(train) \cup Cols(test) \cup {target})
       THEN /\ train' = train /\ test' = WithPlaceholder(test)
            /\ log' = <<"test">> /\ ret' = Raised("KeyError")
       ELSE /\ train' = EncodeCols(train, features)
            /\ test' = EncodeCols(test, features)
            /\ log' = data_n(<<"test", "train", "test", "test">>)
            /\ ret' = Returned("None", <<>>)

labels(features) ==
    /\ LET combine == DfAppend(train, WithPlaceholder(test))
       IN  \A f \in features : Sortable(combine, f)
    /\ Called([op |-> "labels", features |-> features])
    /\ LET placed == WithPlaceholder(test)
           combine == DfAppend(train, placed)
       IN  IF ~(features \subseteq Cols(combine))
           THEN /\ train' = train /\ test' = placed
                /\ log' = <<"test">> /\ ret' = Raised("KeyError")
           ELSE LET encoded == EncodeCols(combine, features)
                    tr == DfSlice(encoded, 0, train.n)
                    te == DfSlice(encoded, tr.n, encoded.n)
                IN  /\ train' = tr
                    /\ test' = DropTarget(te)
                    /\ log' = data_n(<<"test", "train", "test", "test">>)
                    /\ ret' = Returned("None", <<>>)

-----------------------------------------------------------------------------
(***************************************************************************)
(* The workflow: any sequence of calls on a dataset an external loader     *)
(* made, train having the columns of test and the target.                  *)
(***************************************************************************)
Table(n, c) == [n |-> n, c |-> c]

Column(name, cells) == [x \in {name} |-> cells]

NoCall ==
    /\ call = [op |-> "init"]
    /\ ret = Returned("None", <<>>)
    /\ log = <<>>
    /\ calls = 0

Init ==
    /\ train = Table(2, Column("n", <<Int2Cell(2), NaN>>)
                        @@ Column("t", <<Str("a b"), Str("c")>>)
                        @@ Column("l", <<List(<<1>>), List(<<>>)>>)
                        @@ Column(target, <<Int2Cell(1), Int2Cell(0)>>))
    /\ test = Table(1, Column("n", <<Int2Cell(0)>>)
                       @@ Column("t", <<Str("d")>>)
                       @@ Column("l", <<List(<<1, 2>>)>>))
    /\ NoCall

\* The arguments the calls are made with: "z" names no column of the dataset.
NewNames == {"z", target}
NumberNames == {"n", target, "z"}
TextNames == {"t", target, "z"}
Maps == {(Str("a b") :> Int2Cell(1)) @@ (Str("c") :> Int2Cell(2)),
         (Str("a b") :> Int2Cell(1)) @@ (Str("c") :> Int2Cell(2))
             @@ (Str("d") :> Int2Cell(3))}
Percentiles == {<<>>, <<0>>, <<50>>}
FillWith == Int2Cell(0)
Addend == Int2Cell(1)
Matched == {Str("c")}
Replacement == Str("d")
Separator == " "
Pattern == {"a", "c"}
OptionalNames == {<<>>, <<"z">>, <<target>>}

Next ==
    \/ \E features \in SUBSET NumberNames : drop(features)
    \/ impute
    \/ \E a \in TextNames, m \in Maps : ordinal_to_numeric(a, m)
    \/ \E a \in NumberNames : fillna(a, FillWith)
    \/ \E a \in TextNames : replace(a, Matched, Replacement)
    \/ \E a \in NumberNames, lower \in Percentiles, upper \in Percentiles :
          outliers_fix(a, lower, upper)
    \/ \E a \in NumberNames \cup {"l"} : density(a)
    \/ \E a \in NumberNames : add(a, Addend)
    \/ \E new \in NewNames, a \in NumberNames : sum(new, a, "n")
    \/ \E new \in NewNames, a \in NumberNames : diff(new, a, "n")
    \/ \E new \in NewNames, a \in NumberNames : product(new, a, "n")
    \/ \E new \in NewNames, a \in NumberNames : divide(new, a, "n")
    \/ \E new \in NewNames, a \in NumberNames : round(new, a, 0)
    \/ \E new \in NewNames, a \in TextNames \cup {"n"} : concat(new, a, Separator, "t")
    \/ \E new \in NewNames, a \in TextNames \cup {"l"} : list_len(new, a)
    \/ \E new \in NewNames, a \in TextNames \cup {"l"} : word_count(new, a)
    \/ \E a \in TextNames, new \in OptionalNames :
          regex_extract(a, Pattern, new)
    \/ \E features \in SUBSET TextNames : labels(features)

Spec == Init /\ [][Next]_vars

-----------------------------------------------------------------------------
(***************************************************************************)
(* Properties of the workflow (Spec).                                      *)
(***************************************************************************)
\* The call just made returned (it did not raise).
ReturnedNow == ret'.raised = ""

\* The methods that create column call.new.
CreateOps == {"sum", "diff", "product", "divide", "round", "concat",
              "list_len", "word_count"}

\* The methods with one statement on Base.train followed by one on Base.test.
TwoTableOps == CreateOps \cup {"drop", "ordinal_to_numeric", "fillna", "replace",
                               "density", "add", "regex_extract"}

\* The name of the column call c writes, as a set (empty: it writes none).
Written(c) ==
    CASE c.op \in CreateOps -> {c.new}
      [] c.op = "density" -> {c.a \o "_density"}
      [] c.op = "regex_extract" -> {IF TruthyStr(c.new) THEN c.new[1] ELSE c.a}
      [] c.op \in {"ordinal_to_numeric", "fillna", "replace", "add"} -> {c.a}
      [] OTHER -> {}

\* The columns call c names as its inputs and reads (outliers_fix reads its
\* column only for a percentile Python takes as true).
Referenced(c) ==
    CASE c.op \in {"sum", "diff", "product", "divide", "concat"} -> {c.a, c.b}
      [] c.op \in {"drop", "labels"} -> c.features
      [] c.op \in {"impute", "init"} -> {}
      [] c.op = "outliers_fix" ->
             IF TruthyNum(c.lower) \/ TruthyNum(c.upper) THEN {c.a} ELSE {}
      [] OTHER -> {c.a}

\* train and test have the same columns, the target aside.
SchemaSync(tr, te) == Cols(tr) \ {target} = Cols(te) \ {target}

\* C1, as claimed: after any sequence of calls, and after every call that
\* adds or removes a column, train and test have the same columns once the
\* target is excluded.
C1_SchemaAlwaysSynchronised == SchemaSync(train, test)

\* C1, amended: a call that returns, made when train and test have the same
\* columns (target excluded), leaves them with the same columns (target
\* excluded).  A call that raises on its test statement has already added or
\* removed the column in train.
C1_SchemaSyncKeptByReturningCalls ==
    [][SchemaSync(train, test) /\ ReturnedNow => SchemaSync(train', test')]_vars

\* C1's case: a column was added to both tables, then another was dropped
\* from both.
C1_Witness ==
    /\ calls = 2 /\ call.op = "drop" /\ call.features = {"n"}
    /\ ret.raised = ""
    /\ Has(train, "z") /\ Has(test, "z")
    /\ ~Has(train, "n") /\ ~Has(test, "n")

\* C2, as claimed: whatever method was called with whatever output name, test
\* has no column named target once the call has completed.
C2_TestNeverKeepsTarget == ret.raised = "" => ~Has(test, target)

\* C2, amended: when test has no target column before a call, the call
\* returns, and the column it writes is not named target, test has no target
\* column after it; impute and labels drop the placeholder they add.
C2_TargetNotLeftInTest ==
    [][(~Has(test, target) /\ ReturnedNow /\ target \notin Written(call'))
           => ~Has(test', target)]_vars

\* C2's case: labels, which sets test[target] = -1, has returned.
C2_Witness ==
    /\ call.op = "labels" /\ call.features = {"t"} /\ ret.raised = ""
    /\ log = <<"test", "train", "test", "test", "data_n">>
    /\ ~Has(test, target) /\ Has(train, target)

\* C6: drop(names) with every name a column of both tables removes exactly
\* the named columns from train and from test, keeps the other columns as
\* they were, and returns the message with the number of columns train lost
\* and the number it has left.
C6_DropRemovesAndReports ==
    [][(call'.op = "drop" /\ call'.features \subseteq Cols(train) \cap Cols(test))
          => /\ ret'.raised = ""
             /\ Cols(train') = Cols(train) \ call'.features
             /\ Cols(test') = Cols(test) \ call'.features
             /\ \A x \in Cols(train') : train'.c[x] = train.c[x]
             /\ \A x \in Cols(test') : test'.c[x] = test.c[x]
             /\ ret'.value = "Dropped " \o IntStr(Cardinality(call'.features))
                    \o " features with " \o IntStr(Cardinality(Cols(train')))
                    \o " features available."
             /\ Cardinality(call'.features)
                    = Cardinality(Cols(train)) - Cardinality(Cols(train'))]_vars

\* C6's case: two columns of both tables were dropped, three are left.
C6_Witness ==
    /\ call.op = "drop" /\ call.features = {"n", "z"} /\ calls = 2
    /\ ret = Returned("Dropped 2 features with 3 features available.", <<>>)
    /\ Cols(train) = {"t", "l", target}

\* The calls that add or remove a column.
StructureChanging(c) ==
    \/ c.op \in CreateOps \cup {"drop", "density", "impute", "labels"}
    \/ c.op = "regex_extract" /\ TruthyStr(c.new)

\* C8: every call that adds or removes a column calls Base.data_n() after
\* its last change to the tables and before it returns.
C8_DataNAfterEveryStructureChange ==
    (StructureChanging(call) /\ ret.raised = "")
        => (log # <<>> /\ log[Len(log)] = "data_n")

\* The columns call c reads from train and from test: outliers_fix reads
\* only train; labels reads the appended table, where test's rows have the
\* target too.
ReadFromTrain(c) ==
    IF c.op = "labels" THEN c.features \ {target} ELSE Referenced(c)

ReadFromTest(c) ==
    CASE c.op = "outliers_fix" -> {}
      [] c.op = "labels" -> c.features \ {target}
      [] OTHER -> Referenced(c)

\* Call c reads a column from a table that lacks it.
ReadsMissing(c) ==
    IF c.op = "labels" THEN ~(c.features \subseteq Cols(train) \cup Cols(test) \cup {target})
    ELSE \/ ~(ReadFromTrain(c) \subseteq Cols(train))
         \/ ~(ReadFromTest(c) \subseteq Cols(test))

\* Column a of table t holds a value the dictionary m has no entry for.
Unmapped(t, a, m) == Has(t, a) /\ \E i \in Rows(t) : t.c[a][i] \notin DOMAIN m

\* C9, as claimed: a call that names a column absent from train or from test
\* raises.
C9_MissingColumnAlwaysRaises ==
    [][(\E x \in Referenced(call') : ~Has(train, x) \/ ~Has(test, x))
           => ret'.raised # ""]_vars

\* What train holds when call c raised on its test statement: the result of
\* its train statement.
TrainStatementKept(c) ==
    CASE c.op = "drop" ->
             /\ Cols(train') = Cols(train) \ c.features
             /\ c.features \subseteq Cols(train)
      [] c.op = "ordinal_to_numeric" ->
             /\ Cols(train') = Cols(train)
             /\ \A i \in Rows(train) : train'.c[c.a][i] = c.map[train.c[c.a][i]]
      [] OTHER ->
             /\ Cols(train') = Cols(train) \cup Written(c)
             /\ \A x \in Cols(train) \ Written(c) : train'.c[x] = train.c[x]

\* C9, amended: a call that reads a column from a table that lacks it raises
\* (outliers_fix reads train only, labels reads the appended table, which has
\* the target), and so does ordinal_to_numeric on a value without an entry.
\* When the train statement succeeded and the test statement raised (the
\* column, or the entry, is there for train and not for test), train keeps
\* what the train statement assigned, test is as before, and data_n was not
\* called.
C9_FailureWithoutRollback ==
    [][/\ ReadsMissing(call') => ret'.raised # ""
       /\ (/\ call'.op = "ordinal_to_numeric"
           /\ Unmapped(train, call'.a, call'.map) \/ Unmapped(test, call'.a, call'.map))
              => ret'.raised # ""
       /\ (/\ call'.op \in TwoTableOps
           /\ ReadFromTrain(call') \subseteq Cols(train)
           /\ ~(ReadFromTest(call') \subseteq Cols(test))
           /\ call'.op = "ordinal_to_numeric" => ~Unmapped(train, call'.a, call'.map)
           /\ ret'.raised = "KeyError")
              => log' = <<"train">>
       /\ (/\ call'.op = "ordinal_to_numeric"
           /\ Has(train, call'.a) /\ ~Unmapped(train, call'.a, call'.map)
           /\ Unmapped(test, call'.a, call'.map))
              => (ret'.raised = "KeyError" /\ log' = <<"train">>)
       /\ (call'.op \in TwoTableOps /\ ret'.raised # "" /\ log' = <<"train">>)
              => /\ TrainStatementKept(call')
                 /\ test' = test
                 /\ \A i \in DOMAIN log' : log'[i] # "data_n"
      ]_vars

\* C9's case: ordinal_to_numeric mapped train's values, then met a value of
\* test without an entry.
C9_Witness ==
    /\ call.op = "ordinal_to_numeric" /\ call.a = "t"
    /\ ret.raised = "KeyError" /\ log = <<"train">>
    /\ train.c["t"] = <<Int2Cell(1), Int2Cell(2)>>
    /\ test.c["t"] = <<Str("d")>>

-----------------------------------------------------------------------------
(***************************************************************************)
(* Feature.divide on its inputs (SpecDivide): train and test of one row,   *)
(* columns "a" and "b" drawn from the numbers -MaxVal .. MaxVal and NaN.   *)
(***************************************************************************)
SmallNumbers == {Int2Cell(i) : i \in -MaxVal .. MaxVal}

InitDivide ==
    /\ \E a1 \in SmallNumbers \cup {NaN}, b1 \in SmallNumbers \cup {NaN} :
          train = Table(1, Column("a", <<a1>>) @@ Column("b", <<b1>>)
                           @@ Column(target, <<Int2Cell(1)>>))
    /\ \E a2 \in SmallNumbers \cup {NaN}, b2 \in SmallNumbers \cup {NaN} :
          test = Table(1, Column("a", <<a2>>) @@ Column("b", <<b2>>))
    /\ NoCall

NextDivide == \E new \in {"q", "a", "b"} : divide(new, "a", "b")

SpecDivide == InitDivide /\ [][NextDivide]_vars

Zero == Int2Cell(0)

\* C3: after divide(new, a, b), in every row of train and of test where b
\* was 0 the new column holds 0, whatever number a was (positive, negative
\* or zero).
C3_DivideByZeroGivesZero ==
    [][(call'.op = "divide" /\ ReturnedNow)
          => /\ \A i \in Rows(train) :
                   (IsNum(train.c[call'.a][i]) /\ train.c[call'.b][i] = Zero)
                       => train'.c[call'.new][i] = Zero
             /\ \A i \in Rows(test) :
                   (IsNum(test.c[call'.a][i]) /\ test.c[call'.b][i] = Zero)
                       => test'.c[call'.new][i] = Zero]_vars

-----------------------------------------------------------------------------
(***************************************************************************)
(* Feature.word_count on its inputs (SpecWordCount): the text column "t"   *)
(* of train and test, one row each, drawn from Texts.                      *)
(***************************************************************************)
Texts == {"", "a", "a b", "a  b", " a", "a ", "a\tb", "a\nb", "ab c d"}

InitWordCount ==
    /\ \E s1 \in Texts :
          train = Table(1, Column("t", <<Str(s1)>>) @@ Column(target, <<Int2Cell(1)>>))
    /\ \E s2 \in Texts : test = Table(1, Column("t", <<Str(s2)>>))
    /\ NoCall

NextWordCount == \E new \in {"w", "t"} : word_count(new, "t")

SpecWordCount == InitWordCount /\ [][NextWordCount]_vars

Whitespace == {" ", "\t", "\n"}

\* The number of whitespace-separated tokens of s: the places where a run of
\* characters that are not whitespace starts.
Tokens(s) ==
    Cardinality({i \in 1 .. Len(s) :
        /\ SubSeq(s, i, i) \notin Whitespace
        /\ i = 1 \/ SubSeq(s, i - 1, i - 1) \in Whitespace})

\* C10: after word_count(new, a), every row of train and test holds in new
\* the number of whitespace-separated tokens of its text in a.
C10_WordCountCountsTokens ==
    [][(call'.op = "word_count" /\ ReturnedNow /\ TextCol(train, call'.a)
            /\ TextCol(test, call'.a))
          => /\ \A i \in Rows(train) :
                   train'.c[call'.new][i] = Int2Cell(Tokens(train.c[call'.a][i].s))
             /\ \A i \in Rows(test) :
                   test'.c[call'.new][i] = Int2Cell(Tokens(test.c[call'.a][i].s))]_vars

-----------------------------------------------------------------------------
(***************************************************************************)
(* Feature.outliers_fix on its inputs (SpecOutliers): column "a" of train  *)
(* (two rows) and of test (one row) drawn from -MaxVal .. MaxVal.          *)
(***************************************************************************)
InitOutliers ==
    /\ \E a1 \in SmallNumbers, a2 \in SmallNumbers :
          train = Table(2, Column("a", <<a1, a2>>)
                           @@ Column(target, <<Int2Cell(1), Int2Cell(0)>>))
    /\ \E a3 \in SmallNumbers : test = Table(1, Column("a", <<a3>>))
    /\ NoCall

NextOutliers ==
    \E lower \in {<<>>, <<0>>, <<50>>, <<100>>}, upper \in {<<>>, <<0>>, <<50>>, <<100>>} :
        outliers_fix("a", lower, upper)

SpecOutliers == InitOutliers /\ [][NextOutliers]_vars

\* C7: in outliers_fix(col, lower, upper) each percentile that is supplied
\* is applied, and independently of the other: with upper alone, the train
\* values above the upper percentile of col become that percentile and the
\* others stay; with lower alone, likewise below the lower percentile; with
\* both, a value below the lower percentile of col (as col was at the call)
\* and not above the upper one becomes that lower percentile.  test is not
\* modified.
C7_PercentilesOptionalAndIndependent ==
    [][(call'.op = "outliers_fix" /\ ReturnedNow)
          => LET col == train.c[call'.a]
                 lower == call'.lower
                 upper == call'.upper
                 U == percentile(col, upper[1])
                 L == percentile(col, lower[1])
             IN  /\ test' = test
                 /\ (upper # <<>> /\ lower = <<>>) =>
                       \A i \in Rows(train) : train'.c[call'.a][i] =
                           IF Less(U, col[i]) THEN U ELSE col[i]
                 /\ (lower # <<>> /\ upper = <<>>) =>
                       \A i \in Rows(train) : train'.c[call'.a][i] =
                           IF Less(col[i], L) THEN L ELSE col[i]
                 /\ (lower # <<>> /\ upper # <<>>) =>
                       \A i \in Rows(train) :
                           (Less(col[i], L) /\ ~Less(U, col[i]))
                               => train'.c[call'.a][i] = L]_vars

-----------------------------------------------------------------------------
(***************************************************************************)
(* Feature.density on its inputs (SpecDensity): column "a" of train (three *)
(* rows) and of test (two rows) drawn from 0 .. MaxVal, NaN and, for test, *)
(* a value train never has.                                                *)
(***************************************************************************)
Keys == {Int2Cell(i) : i \in 0 .. MaxVal} \cup {NaN}

InitDensity ==
    /\ \E a1 \in Keys, a2 \in Keys, a3 \in Keys :
          train = Table(3, Column("a", <<a1, a2, a3>>)
                           @@ Column(target, <<Int2Cell(1), Int2Cell(0), Int2Cell(1)>>))
    /\ \E a4 \in Keys \cup {Int2Cell(-1)}, a5 \in Keys \cup {Int2Cell(-1)} :
          test = Table(2, Column("a", <<a4, a5>>))
    /\ NoCall

NextDensity == \E a \in {"a", "a_density"} : density(a)

SpecDensity == InitDensity /\ [][NextDensity]_vars

\* The number of rows of col holding x.
Frequency(col, x) == Cardinality({j \in DOMAIN col : col[j] = x})

\* The least frequency in col of a value of col that is not missing; NaN when
\* col has no such value.
MinFrequency(col) ==
    LET present == {j \in DOMAIN col : col[j] # NaN}
    IN  IF present = {} THEN NaN
        ELSE LET j == CHOOSE j \in present :
                     \A h \in present : Frequency(col, col[j]) <= Frequency(col, col[h])
             IN  Int2Cell(Frequency(col, col[j]))

\* C5, as claimed: after density(col), every row of train and every row of
\* test whose value occurs in train holds in col_density the number of train
\* rows with that value, and a row of test whose value does not occur in
\* train holds the least frequency of train.
C5_DensityIsTrainFrequency ==
    [][(call'.op = "density" /\ ReturnedNow)
          => LET col == train.c[call'.a]
                 new == call'.a \o "_density"
             IN  /\ \A i \in Rows(train) :
                        train'.c[new][i] = Int2Cell(Frequency(col, col[i]))
                 /\ \A i \in Rows(test) :
                        test'.c[new][i] =
                            IF Frequency(col, test.c[call'.a][i]) > 0
                            THEN Int2Cell(Frequency(col, test.c[call'.a][i]))
                            ELSE MinFrequency(col)]_vars

\* What density gives a row holding x, by the amended claim.
ExpectedDensity(col, x) ==
    IF x # NaN /\ Frequency(col, x) > 0 THEN Int2Cell(Frequency(col, x))
    ELSE MinFrequency(col)

\* C5, amended: after density(col), every row of train and of test whose
\* value is not missing and occurs in train holds in col_density the number
\* of train rows with that value; every other row (a value train never has,
\* or a missing value, in test or in train) holds the least frequency among
\* train's values that are not missing, which is NaN when train has none.
\* The frequencies are those of train's column as it was at the call; test's
\* values play no part, and the other columns are unchanged.
C5_DensityOfPresentValues ==
    [][(call'.op = "density" /\ ReturnedNow)
          => LET col == train.c[call'.a]
                 new == call'.a \o "_density"
             IN  /\ \A i \in Rows(train) :
                        train'.c[new][i] = ExpectedDensity(col, col[i])
                 /\ \A i \in Rows(test) :
                        test'.c[new][i] = ExpectedDensity(col, test.c[call'.a][i])
                 /\ \A x \in Cols(train) \ {new} : train'.c[x] = train.c[x]
                 /\ \A x \in Cols(test) \ {new} : test'.c[x] = test.c[x]]_vars

\* C5's case: train holds 0 twice and 1 once, test holds a value train never
\* has and a 0: the unseen value got the least frequency, 1.
C5_Witness ==
    /\ call = [op |-> "density", a |-> "a"] /\ ret.raised = ""
    /\ train.c["a"] = <<Int2Cell(0), Int2Cell(1), Int2Cell(0)>>
    /\ train.c["a_density"] = <<Int2Cell(2), Int2Cell(1), Int2Cell(2)>>
    /\ test.c["a"] = <<Int2Cell(-1), Int2Cell(0)>>
    /\ test.c["a_density"] = <<Int2Cell(1), Int2Cell(2)>>

-----------------------------------------------------------------------------
(***************************************************************************)
(* Feature.labels on its inputs (SpecLabels): a text column "c" and a      *)
(* number column "d" of train (two rows) and test (one row).               *)
(***************************************************************************)
Categories == {Str("a"), Str("b"), Str("C")}
Grades == {Int2Cell(2), Int2Cell(10)}

InitLabels ==
    /\ \E c1 \in Categories, c2 \in Categories, d1 \in Grades, d2 \in Grades :
          train = Table(2, Column("c", <<c1, c2>>) @@ Column("d", <<d1, d2>>)
                           @@ Column(target, <<Int2Cell(1), Int2Cell(0)>>))
    /\ \E c3 \in Categories, d3 \in Grades :
          test = Table(1, Column("c", <<c3>>) @@ Column("d", <<d3>>))
    /\ NoCall

NextLabels == \E features \in SUBSET {"c", "d", target} : labels(features)

SpecLabels == InitLabels /\ [][NextLabels]_vars

=============================================================================
